---- MODULE Spec2Model ----
(***************************************************************************)
(* Manybody calculator of matscipy (calculators/manybody/calculator.py).    *)
(*                                                                         *)
(* Conventions of the model                                                *)
(*  - numpy arrays are sequences; position k of a sequence is numpy index  *)
(*    k-1, and atom, pair and triplet indices are stored 1-based as well.  *)
(*  - floating point numbers are exact integers or exact fractions         *)
(*    [n, d]; the configurations are chosen so that every square root the  *)
(*    code takes is the root of a perfect square.                          *)
(***************************************************************************)
EXTENDS Integers, Sequences, FiniteSets, TLC

(***************************************************************************)
(* Bounds of the model                                                     *)
(***************************************************************************)
MaxAtoms == 3

(***************************************************************************)
(* Arithmetic helpers                                                      *)
(***************************************************************************)
Abs(x) == IF x < 0 THEN -x ELSE x

Max2(a, b) == IF a >= b THEN a ELSE b

RECURSIVE GCD(_, _)
GCD(a, b) == IF b = 0 THEN a ELSE GCD(b, a % b)

\* exact quotient n/d (d # 0) in lowest terms with a positive denominator
Frac(n, d) ==
    LET g == GCD(Abs(n), Abs(d))
        s == IF d < 0 THEN -1 ELSE 1
    IN  [n |-> s * (n \div g), d |-> s * (d \div g)]

\* sum of two exact fractions, and of a sequence of them
FAdd(x, y) == Frac(x.n * y.d + y.n * x.d, x.d * y.d)

RECURSIVE FSum(_)
FSum(fs) == IF fs = <<>> THEN Frac(0, 1) ELSE FAdd(Head(fs), FSum(Tail(fs)))

\* np.sqrt on a perfect square
ISqrt(n) == CHOOSE k \in 0..n : k * k <= n /\ (k + 1) * (k + 1) > n

IsSquare(n) == ISqrt(n) * ISqrt(n) = n

\* a sequence built elementwise, as a stored array (not recomputed on each read)
Array(s) == s \o <<>>

\* a function evaluated once on all of its domain
Stored(f) == f @@ <<>>

RECURSIVE SumSeq(_)
SumSeq(s) == IF s = <<>> THEN 0 ELSE Head(s) + SumSeq(Tail(s))

RECURSIVE MaxSeq(_)
MaxSeq(s) == IF s = <<>> THEN 0 ELSE Max2(Head(s), MaxSeq(Tail(s)))

RECURSIVE Flatten(_)
Flatten(ss) == IF ss = <<>> THEN <<>> ELSE Head(ss) \o Flatten(Tail(ss))

\* vectors (rows of an array with a Cartesian axis)
VZero(n) == Array([c \in 1..n |-> 0])
VAdd(u, v) == Array([c \in 1..Len(u) |-> u[c] + v[c]])
VSub(u, v) == Array([c \in 1..Len(u) |-> u[c] - v[c]])
VScale(k, v) == Array([c \in 1..Len(v) |-> k * v[c]])
VNorm2(v) == SumSeq([c \in 1..Len(v) |-> v[c] * v[c]])

RECURSIVE VSum(_, _)
VSum(vs, n) == IF vs = <<>> THEN VZero(n) ELSE VAdd(Head(vs), VSum(Tail(vs), n))

(***************************************************************************)
(* Atomic configurations (ase.Atoms), the argument of every operation      *)
(***************************************************************************)
\* lattice sites; all distances between O, X and Y are integers (3, 3, 4)
SiteO == <<0, 0, 0>>
SiteX == <<2, 1, 2>>
SiteY == <<2, 1, -2>>
SiteF == <<0, 0, 20>>
Ring == <<SiteF, SiteO, SiteX, SiteY>>
RingNumbers == <<14, 14, 6, 14>>
RingMasses == <<4, 4, 1, 4>>
CellLengths == <<3, 10, 10>>

\* n atoms taken consecutively around the ring of sites, starting at any site,
\* in a cell that is not periodic
Window(start, n) ==
    [positions |-> Array([k \in 1..n |-> Ring[((start + k - 2) % Len(Ring)) + 1]]),
     numbers   |-> Array([k \in 1..n |-> RingNumbers[((start + k - 2) % Len(Ring)) + 1]]),
     masses    |-> Array([k \in 1..n |-> RingMasses[((start + k - 2) % Len(Ring)) + 1]]),
     cell      |-> CellLengths,
     pbc       |-> FALSE]

\* one atom in a cell that is periodic along x: its neighbours are its own images
Periodic == [Window(2, 1) EXCEPT !.pbc = TRUE]

\* a planar system handed over with two Cartesian components
Planar(pbc) ==
    [positions |-> << <<0, 0>> >>, numbers |-> <<14>>, masses |-> <<4>>,
     cell |-> CellLengths, pbc |-> pbc]

\* two atoms of one species within every cutoff of each other, and no third atom
Dimer ==
    [positions |-> <<SiteO, SiteY>>, numbers |-> <<14, 14>>, masses |-> <<4, 4>>,
     cell |-> CellLengths, pbc |-> FALSE]

NbAtoms(atoms) == Len(atoms.positions)
Dimension(atoms) == Len(atoms.positions[1])
GetVolume(atoms) == atoms.cell[1] * atoms.cell[2] * atoms.cell[3]

\* the scalar cutoffs an evaluator is constructed with
Cutoffs == {5, 7}

\* the bundles of 16 potential functions an evaluator is constructed with
Seeds == {1, 2}

\* largest neighbour range any operation asks for (get_hessian: 2 * cutoff)
MaxRange == 2 * (CHOOSE c \in Cutoffs : \A d \in Cutoffs : d <= c)

\* periodic images along x that can fall within MaxRange
Shifts(atoms) ==
    IF atoms.pbc THEN (0 - (MaxRange \div atoms.cell[1]))..(MaxRange \div atoms.cell[1])
    ELSE {0}

ShiftVec(atoms, s) == [c \in 1..Dimension(atoms) |-> IF c = 1 THEN s * atoms.cell[1] ELSE 0]

\* D of neighbour_list: position of image s of atom j minus position of atom i
Displacement(atoms, i, j, s) ==
    VSub(VAdd(atoms.positions[j], ShiftVec(atoms, s)), atoms.positions[i])

Configurations ==
    { Window(start, n) : start \in 1..Len(Ring), n \in 1..MaxAtoms }
    \cup {Periodic, Dimer}
    \cup { Planar(pbc) : pbc \in BOOLEAN }

NoAtoms == [none |-> TRUE]

\* self.results before any calculation
NoResults == [none |-> TRUE]

(***************************************************************************)
(* Topology providers (matscipy.neighbours, matscipy.numpy_tricks)         *)
(***************************************************************************)
\* neighbour_list('ijdD', atoms, rcut): every image of every atom within the
\* range rcut of atom i, in both directions, ordered by owner atom i
NeighbourList(atoms, rcut) ==
    LET n  == NbAtoms(atoms)
        lo == CHOOSE s \in Shifts(atoms) : \A u \in Shifts(atoms) : s <= u
        nS == Cardinality(Shifts(atoms))
        Cand(i, k) ==
            LET j == ((k - 1) \div nS) + 1
                s == lo + ((k - 1) % nS)
                D == Displacement(atoms, i, j, s)
            IN  [i |-> i, j |-> j, s |-> s, r |-> ISqrt(VNorm2(D)), D |-> D]
        Within(c) == ~(c.i = c.j /\ c.s = 0) /\ VNorm2(c.D) < rcut * rcut
        Of(i) == SelectSeq([k \in 1..(n * nS) |-> Cand(i, k)], Within)
    IN  Flatten([i \in 1..n |-> Of(i)])

\* first_neighbours(nb_atoms, i_p): offset of the first pair of every atom in
\* the owner-sorted pair list, and the end of the list as the last entry
FirstNeighbours(nb_atoms, i_p) ==
    Array([k \in 1..(nb_atoms + 1) |->
        1 + Cardinality({p \in 1..Len(i_p) : i_p[p] < k})])

\* triplet_list(first_n): all combinations of two pairs of one owner atom,
\* each unordered combination once
TripletList(first_n) ==
    LET Of(i) ==
            LET a == first_n[i]
                m == first_n[i + 1] - first_n[i]
                all == [k \in 1..(m * m) |->
                           <<a + ((k - 1) \div m), a + ((k - 1) % m)>>]
            IN  SelectSeq(all, LAMBDA t : t[1] < t[2])
    IN  Flatten([i \in 1..(Len(first_n) - 1) |-> Of(i)])

\* find_indices_of_reversed_pairs: index of the mirror pair (j, i, -D)
ReversedPairs(pairs) ==
    Array([p \in 1..Len(pairs) |->
        CHOOSE q \in 1..Len(pairs) :
            /\ pairs[q].i = pairs[p].j /\ pairs[q].j = pairs[p].i
            /\ pairs[q].D = VScale(-1, pairs[p].D)])

\* np.bincount(x, weights, minlength): scatter-add of weights by key
Bincount(x, weights, minlength) ==
    Array([k \in 1..Max2(minlength, MaxSeq(x)) |->
        SumSeq([t \in 1..Len(x) |-> IF x[t] = k THEN weights[t] ELSE 0])])

\* mabincount(x, weights, minlength): bincount of every component of weights
Mabincount(x, weights, minlength, width) ==
    Array([k \in 1..Max2(minlength, MaxSeq(x)) |->
        VSum([t \in 1..Len(x) |-> IF x[t] = k THEN weights[t] ELSE VZero(width)],
             width)])

(***************************************************************************)
(* The evaluator: what __init__ stores                                     *)
(***************************************************************************)
VARIABLES
    seed,          \* identifies the 16 potential functions given to __init__
    cutoff,        \* self.cutoff
    self_atoms,    \* self.atoms (NoAtoms: None)
    self_results,  \* self.results
    call,          \* the last operation: its argument, outcome and trace
    assembly,      \* get_hessian from the symmetrization on: its arrays and result
    solver,        \* the conjugate-gradient loop of the non-affine elastic constants
    nonaffine,     \* get_non_affine_forces from line 690 on: its arrays and result
    probe          \* get_second_derivative from line 380 on: its terms and result

PhiNames == <<"phi", "d1phi", "d2phi", "d11phi", "d12phi", "d22phi">>

ThetaNames == <<"theta", "d1theta", "d2theta", "d3theta", "d11theta", "d12theta",
                "d13theta", "d22theta", "d23theta", "d33theta">>

\* attributes that __init__ binds on the instance
PhiSet == {PhiNames[k] : k \in 1..Len(PhiNames)}

ThetaSet == {ThetaNames[k] : k \in 1..Len(ThetaNames)}

\* the 16 potential functions of the caller
SuppliedFunctions == PhiSet \cup ThetaSet

InstanceAttributes == {"atom_type", "pair_type", "cutoff"} \cup SuppliedFunctions

IndexOf(names, name) == CHOOSE k \in 1..Len(names) : names[k] = name

\* atom_type and pair_type of the caller: silicon 1, anything else 2; the
\* pair type is symmetric in its two atom types
AtomType(number) == IF number = 14 THEN 1 ELSE 2

PairType(ti, tj) == ti + tj - 1

\* the pair functions of the caller: pure functions of (R, r, xi, ti, tij)
PairFunction(sd, name, R, r, xi, ti, tij) ==
    (((sd + IndexOf(PhiNames, name)) * (1 + R + 2 * r + 3 * xi + ti + 5 * tij)) % 5) - 2

\* the triplet functions of the caller: pure functions of the three sides
TripletFunction(sd, name, g, ti, tij, tik) ==
    (((sd + IndexOf(ThetaNames, name))
      * (1 + g.Rij + 2 * g.rij + 3 * g.Rik + 4 * g.rik + 5 * g.Rjk + 6 * g.rjk
         + ti + tij + 2 * tik)) % 5) - 2

\* variant of GetCutoff that takes the largest entry of the whole table (breaks C15)
GetCutoffOfWholeTable(cut, atoms) ==
    IF cut.scalar THEN cut.value
    ELSE LET all == {cut.table[p] : p \in 1..Len(cut.table)}
         IN  CHOOSE c \in all \cup {0} : \A d \in all \cup {0} : d <= c

\* get_cutoff: the scalar, or the largest table entry of the species present
GetCutoff(cut, atoms) ==
    IF cut.scalar THEN cut.value
    ELSE LET elements == {atoms.numbers[k] : k \in 1..NbAtoms(atoms)}
             present  == {cut.table[PairType(AtomType(i), AtomType(j))] :
                             i \in elements, j \in elements}
         IN  CHOOSE c \in present \cup {0} : \A d \in present \cup {0} : d <= c

(***************************************************************************)
(* Scalar fields shared by calculate, get_hessian and                      *)
(* get_born_elastic_constants                                              *)
(***************************************************************************)
\* rij_t, Rij_t, rik_t, Rik_t, Rjk_t, rjk_t of one triplet
TripletGeometry(pairs, t) ==
    LET rij == pairs[t[1]].r
        rik == pairs[t[2]].r
        Rjk == VNorm2(VSub(pairs[t[2]].D, pairs[t[1]].D))
    IN  [Rij |-> rij * rij, rij |-> rij, Rik |-> rik * rik, rik |-> rik,
         Rjk |-> Rjk, rjk |-> ISqrt(Rjk)]

\* one theta-family function on every triplet
ThetaOnTriplets(sd, name, atoms, pairs, triplets) ==
    Array([t \in 1..Len(triplets) |->
        LET ij == pairs[triplets[t][1]]
            ik == pairs[triplets[t][2]]
            ti == AtomType(atoms.numbers[ij.i])
        IN  TripletFunction(sd, name, TripletGeometry(pairs, triplets[t]), ti,
                            PairType(ti, AtomType(atoms.numbers[ij.j])),
                            PairType(ti, AtomType(atoms.numbers[ik.j])))])

\* variant of XiAccumulate keyed by the ik side of the triplets (breaks C10)
XiAccumulateByIk(ij_t, ik_t, theta_t, nb_pairs) == Bincount(ik_t, theta_t, nb_pairs)

\* xi_p = np.bincount(ij_t, weights=theta_t, minlength=nb_pairs)
XiAccumulate(ij_t, ik_t, theta_t, nb_pairs) == Bincount(ij_t, theta_t, nb_pairs)

\* one phi-family function on every pair
PhiOnPairs(sd, name, atoms, pairs, xi_p) ==
    Array([p \in 1..Len(pairs) |->
        LET ti == AtomType(atoms.numbers[pairs[p].i])
        IN  PairFunction(sd, name, pairs[p].r * pairs[p].r, pairs[p].r, xi_p[p], ti,
                         PairType(ti, AtomType(atoms.numbers[pairs[p].j])))])

\* the potential functions an operation looks up on self, in the order of the code
Lookups(op) ==
    CASE op = "calculate" ->
           <<"theta", "d1theta", "d2theta", "d3theta", "phi", "d1phi", "d2phi">>
      [] op = "get_hessian" ->
           <<"theta", "d1theta", "d2theta", "d3theta", "d11theta", "d22theta",
             "d33theta", "d12theta", "d23theta", "d13theta", "d2phi">>
      [] op = "get_born_elastic_constants" ->
           <<"theta", "d1theta", "d2theta", "d3theta", "d11theta", "d22theta",
             "d33theta", "d12theta", "d23theta", "d13theta",
             "d2phi", "d11phi", "d22phi", "d12phi">>
      [] op \in {"get_second_derivative", "get_non_affine_forces"} ->
           <<"G", "d1G", "d2G", "d11G", "d12G", "d22G",
             "d1F", "d2F", "d11F", "d12F", "d22F">>

\* the lookups Python performs: up to and including the first unbound name
Invoked(op) ==
    LET names == Lookups(op)
        bad   == {k \in 1..Len(names) : names[k] \notin InstanceAttributes}
        stop  == IF bad = {} THEN Len(names)
                 ELSE CHOOSE k \in bad : \A m \in bad : k <= m
    IN  {names[k] : k \in 1..stop}

(***************************************************************************)
(* calculate: energy, forces and stress                                    *)
(***************************************************************************)
\* elementwise sum and difference of two arrays of vectors of one shape
AAdd(a, b) == Array([k \in 1..Len(a) |-> VAdd(a[k], b[k])])
ASub(a, b) == Array([k \in 1..Len(a) |-> VSub(a[k], b[k])])

\* i_p and j_p of a pair list
OwnerOf(pairs) == Array([p \in 1..Len(pairs) |-> pairs[p].i])
NeighbourOf(pairs) == Array([p \in 1..Len(pairs) |-> pairs[p].j])

\* ij_t and ik_t of a triplet list
IjOf(triplets) == Array([t \in 1..Len(triplets) |-> triplets[t][1]])
IkOf(triplets) == Array([t \in 1..Len(triplets) |-> triplets[t][2]])

\* fij_pc = (d1phi_p * r_pc.T).T
PairForces(d1phi_p, pairs) ==
    Array([p \in 1..Len(pairs) |-> VScale(d1phi_p[p], pairs[p].D)])

\* fij_tc, fik_tc and fjk_tc of every triplet
TripletForces(d2phi_p, d1theta_t, d2theta_t, d3theta_t, pairs, triplets) ==
    Array([t \in 1..Len(triplets) |->
        LET ij == triplets[t][1]
            ik == triplets[t][2]
        IN  [ij |-> VScale(d2phi_p[ij] * d1theta_t[t], pairs[ij].D),
             ik |-> VScale(d2phi_p[ij] * d2theta_t[t], pairs[ik].D),
             jk |-> VScale(d2phi_p[ij] * d3theta_t[t],
                           VSub(pairs[ik].D, pairs[ij].D))]])

\* f_nc = mabincount(i_p, fij_pc, nb_atoms) - mabincount(j_p, fij_pc, nb_atoms)
ScatterPairForces(pairs, fij_pc, nb_atoms, width) ==
    ASub(Mabincount(OwnerOf(pairs), fij_pc, nb_atoms, width),
         Mabincount(NeighbourOf(pairs), fij_pc, nb_atoms, width))

\* variant of ScatterTripletForces that adds the jk contribution to atom j and
\* never subtracts it from atom k (breaks C1)
ScatterTripletForcesUnpaired(pairs, triplets, f_t, nb_atoms, width) ==
    LET nt    == Len(triplets)
        i_ij  == Array([t \in 1..nt |-> pairs[triplets[t][1]].i])
        j_ij  == Array([t \in 1..nt |-> pairs[triplets[t][1]].j])
        i_ik  == Array([t \in 1..nt |-> pairs[triplets[t][2]].i])
        j_ik  == Array([t \in 1..nt |-> pairs[triplets[t][2]].j])
        fij   == Array([t \in 1..nt |-> f_t[t].ij])
        fik   == Array([t \in 1..nt |-> f_t[t].ik])
        fjk   == Array([t \in 1..nt |-> f_t[t].jk])
    IN  AAdd(AAdd(ASub(Mabincount(i_ij, fij, nb_atoms, width),
                       Mabincount(j_ij, fij, nb_atoms, width)),
                  ASub(Mabincount(i_ik, fik, nb_atoms, width),
                       Mabincount(j_ik, fik, nb_atoms, width))),
             Mabincount(j_ij, fjk, nb_atoms, width))

\* the triplet contribution added to f_nc: bond ij as +i/-j, bond ik as +i/-k,
\* bond jk as +j/-k
ScatterTripletForces(pairs, triplets, f_t, nb_atoms, width) ==
    LET nt    == Len(triplets)
        i_ij  == Array([t \in 1..nt |-> pairs[triplets[t][1]].i])
        j_ij  == Array([t \in 1..nt |-> pairs[triplets[t][1]].j])
        i_ik  == Array([t \in 1..nt |-> pairs[triplets[t][2]].i])
        j_ik  == Array([t \in 1..nt |-> pairs[triplets[t][2]].j])
        fij   == Array([t \in 1..nt |-> f_t[t].ij])
        fik   == Array([t \in 1..nt |-> f_t[t].ik])
        fjk   == Array([t \in 1..nt |-> f_t[t].jk])
    IN  AAdd(AAdd(ASub(Mabincount(i_ij, fij, nb_atoms, width),
                       Mabincount(j_ij, fij, nb_atoms, width)),
                  ASub(Mabincount(i_ik, fik, nb_atoms, width),
                       Mabincount(j_ik, fik, nb_atoms, width))),
             ASub(Mabincount(j_ij, fjk, nb_atoms, width),
                  Mabincount(j_ik, fjk, nb_atoms, width)))

\* variant of Energy without the factor one half (breaks C11)
EnergyUnhalved(phi_p) == Frac(SumSeq(phi_p), 1)

\* epot = 0.5 * np.sum(phi_p)
Energy(phi_p) == Frac(SumSeq(phi_p), 2)

\* variant of VirialAxes in the order the comments of lines 181 and 182 name
\* (xz before yz) (breaks C12)
VirialAxesAsCommented == << <<1, 1>>, <<2, 2>>, <<3, 3>>, <<1, 3>>, <<2, 3>>, <<1, 2>> >>

\* the pairs of Cartesian axes of the six rows of virial_v, in the order of the code
VirialAxes == << <<1, 1>>, <<2, 2>>, <<3, 3>>, <<2, 3>>, <<1, 3>>, <<1, 2>> >>

\* virial_v: pair contribution plus triplet contribution
Virial(pairs, triplets, fij_pc, f_t) ==
    Array([v \in 1..6 |->
        LET a == VirialAxes[v][1]
            b == VirialAxes[v][2]
        IN  SumSeq([p \in 1..Len(pairs) |-> pairs[p].D[a] * fij_pc[p][b]])
            + SumSeq([t \in 1..Len(triplets) |->
                  LET rij == pairs[triplets[t][1]].D
                      rik == pairs[triplets[t][2]].D
                  IN  rij[a] * f_t[t].ij[b] + rik[a] * f_t[t].ik[b]
                      + (rik[a] - rij[a]) * f_t[t].jk[b]])])

\* variant of StoreResults that adds the energy to the one already stored
\* (breaks C9)
StoreResultsAccumulated(old, epot, stress, f_nc) ==
    LET e == IF old = NoResults THEN epot ELSE FAdd(old.energy, epot)
    IN  [free_energy |-> e, energy |-> e, stress |-> stress, forces |-> f_nc]

\* self.results = {...}: the dictionary is replaced as a whole
StoreResults(old, epot, stress, f_nc) ==
    [free_energy |-> epot, energy |-> epot, stress |-> stress, forces |-> f_nc]

\* what an operation leaves behind for the properties to look at
Trace(op, atoms, outcome, nb_atoms, pairs, triplets, theta_t, xi_p, evaluated, value) ==
    [op |-> op, atoms |-> atoms, outcome |-> outcome, nb_atoms |-> nb_atoms,
     pairs |-> pairs, triplets |-> triplets, theta_t |-> theta_t, xi_p |-> xi_p,
     invoked |-> Invoked(op), evaluated |-> evaluated, value |-> value,
     again |-> FALSE]

\* what the providers of the topology can do with an argument: neighbour_list is
\* written for positions of three components, and first_neighbours is compiled
\* code that indexes an array of the size of nb_atoms by the owner indices, so
\* that an owner that is no atom of nb_atoms is an access out of bounds, after
\* which the operation may go on or be killed
ProviderOutcomes(atoms, nb_atoms, pairs) ==
    {"continues"}
    \cup (IF Dimension(atoms) # 3 THEN {"TypeError"} ELSE {})
    \cup (IF \E p \in 1..Len(pairs) : pairs[p].i > nb_atoms THEN {"crash"} ELSE {})

\* the operation ended inside a provider: nothing after it was computed
Interrupted(trace, how) ==
    [trace EXCEPT !.outcome = how,
                  !.pairs = IF how = "TypeError" THEN <<>> ELSE @,
                  !.triplets = <<>>, !.theta_t = <<>>,
                  !.xi_p = <<>>, !.invoked = {}, !.evaluated = {}, !.value = <<>>]

\* the trace an operation leaves when the providers end as `how`
Ended(trace, how) == IF how = "continues" THEN trace ELSE Interrupted(trace, how)

\* the cutoff parameters an evaluator is constructed with
CutoffParams == {[scalar |-> TRUE, value |-> c, table |-> <<>>] : c \in Cutoffs}

\* the cutoff tables an evaluator can be constructed with: one radius per pair
\* type (Si-Si, Si-C, C-C)
CutoffTables ==
    {[scalar |-> FALSE, value |-> 0, table |-> <<a, b, c>>] :
        a \in {3, 5, 7}, b \in {3, 5, 7}, c \in {3, 5, 7}}

\* the pair list of an operation: neighbour_list at reach times the cutoff
\* (get_hessian asks for twice the cutoff)
PairList(cut, atoms, reach) == NeighbourList(atoms, reach * GetCutoff(cut, atoms))

PairListTable ==
    Stored([k \in CutoffParams \X Configurations \X {1, 2} |->
               PairList(k[1], k[2], k[3])])

\* the body of calculate after Calculator.calculate has stored atoms as self.atoms
CalculateRun(sd, cut, atoms) ==
    LET nb_atoms  == NbAtoms(atoms)
        pairs     == PairList(cut, atoms, 1)
        triplets  == TripletList(FirstNeighbours(nb_atoms, OwnerOf(pairs)))
        theta_t   == ThetaOnTriplets(sd, "theta", atoms, pairs, triplets)
        xi_p      == XiAccumulate(IjOf(triplets), IkOf(triplets), theta_t, Len(pairs))
        fij_pc    == PairForces(PhiOnPairs(sd, "d1phi", atoms, pairs, xi_p), pairs)
        f_t       == TripletForces(PhiOnPairs(sd, "d2phi", atoms, pairs, xi_p),
                                   ThetaOnTriplets(sd, "d1theta", atoms, pairs, triplets),
                                   ThetaOnTriplets(sd, "d2theta", atoms, pairs, triplets),
                                   ThetaOnTriplets(sd, "d3theta", atoms, pairs, triplets),
                                   pairs, triplets)
        virial_v  == Virial(pairs, triplets, fij_pc, f_t)
        \* r_pc.T[2] does not exist when r_pc has fewer than three columns
        outcome   == IF Dimension(atoms) < 3 THEN "IndexError" ELSE "returned"
    IN  [outcome |-> outcome,
         epot    |-> Energy(PhiOnPairs(sd, "phi", atoms, pairs, xi_p)),
         f_nc    |-> AAdd(ScatterPairForces(pairs, fij_pc, nb_atoms, Dimension(atoms)),
                          ScatterTripletForces(pairs, triplets, f_t, nb_atoms,
                                               Dimension(atoms))),
         stress  |-> IF outcome = "returned"
                     THEN Array([v \in 1..6 |-> Frac(virial_v[v], GetVolume(atoms))])
                     ELSE <<>>,
         trace   |-> Trace("calculate", atoms, outcome, nb_atoms, pairs, triplets,
                           theta_t, xi_p,
                           {"theta", "d1theta", "d2theta", "d3theta",
                            "phi", "d1phi", "d2phi"}, <<>>)]

\* calculate is a function of the evaluator's parameters and of atoms
CalculateTable ==
    Stored([k \in Seeds \X CutoffParams \X Configurations |->
               CalculateRun(k[1], k[2], k[3])])

Calculate(atoms) ==
    LET run   == CalculateTable[<<seed, cutoff, atoms>>]
        again == /\ call.op = "calculate"
                 /\ call.outcome = "returned"
                 /\ call.atoms = atoms
    IN  \E how \in ProviderOutcomes(atoms, NbAtoms(atoms), run.trace.pairs) :
            /\ self_atoms' = atoms
            /\ self_results' = IF how = "continues" /\ run.outcome = "returned"
                               THEN StoreResults(self_results, run.epot, run.stress,
                                                 run.f_nc)
                               ELSE self_results
            /\ call' = [Ended(run.trace, how) EXCEPT !.again = again]
            /\ UNCHANGED <<seed, cutoff, assembly, solver, nonaffine, probe>>

(***************************************************************************)
(* Operations that take atoms without going through Calculator.calculate   *)
(***************************************************************************)
\* if self.atoms is None: self.atoms = atoms
BindAtoms(old, atoms) == IF old = NoAtoms THEN atoms ELSE old

\* the atom counts len(self.atoms) can have
AtomCounts == 1..MaxAtoms

\* the ten theta-family arrays of get_hessian and get_born_elastic_constants
ThetaArrays(sd, atoms, pairs, triplets) ==
    LET Th(name) == ThetaOnTriplets(sd, name, atoms, pairs, triplets)
    IN  [theta |-> Th("theta"), d1theta |-> Th("d1theta"), d2theta |-> Th("d2theta"),
         d3theta |-> Th("d3theta"), d11theta |-> Th("d11theta"),
         d12theta |-> Th("d12theta"), d13theta |-> Th("d13theta"),
         d22theta |-> Th("d22theta"), d23theta |-> Th("d23theta"),
         d33theta |-> Th("d33theta")]

\* get_hessian up to self.d2phi(R_p, ...), where it stops: it never binds R_p
HessianRun(sd, cut, atoms, nb_atoms) ==
    LET pairs    == PairList(cut, atoms, 2)
        triplets == TripletList(FirstNeighbours(nb_atoms, OwnerOf(pairs)))
        theta_t  == ThetaOnTriplets(sd, "theta", atoms, pairs, triplets)
        xi_p     == XiAccumulate(IjOf(triplets), IkOf(triplets), theta_t, Len(pairs))
    IN  Trace("get_hessian", atoms, "NameError", nb_atoms, pairs, triplets,
              theta_t, xi_p, ThetaSet, <<>>)

HessianTable ==
    Stored([k \in Seeds \X CutoffParams \X Configurations \X AtomCounts |->
               HessianRun(k[1], k[2], k[3], k[4])])

GetHessian(atoms) ==
    LET nb_atoms == NbAtoms(BindAtoms(self_atoms, atoms))
        run      == HessianTable[<<seed, cutoff, atoms, nb_atoms>>]
    IN  \E how \in ProviderOutcomes(atoms, nb_atoms, run.pairs) :
            /\ self_atoms' = BindAtoms(self_atoms, atoms)
            /\ call' = Ended(run, how)
            /\ UNCHANGED <<seed, cutoff, self_results, assembly, solver, nonaffine, probe>>

(***************************************************************************)
(* get_born_elastic_constants                                              *)
(***************************************************************************)
Axes == 1..3

\* the index quadruples (a, b, c, d) of a 3 x 3 x 3 x 3 tensor, row-major
Index4 == Array([n \in 1..81 |->
              <<((n - 1) \div 27) + 1, (((n - 1) \div 9) % 3) + 1,
                (((n - 1) \div 3) % 3) + 1, ((n - 1) % 3) + 1>>])

\* position of entry (a, b, c, d) in a tensor stored row-major
At4(a, b, c, d) == 27 * (a - 1) + 9 * (b - 1) + 3 * (c - 1) + d

\* _o(x, y, z, t): one entry of the outer product of four vectors
O4(x, y, z, t, ix) == x[ix[1]] * y[ix[2]] * z[ix[3]] * t[ix[4]]

\* _o(x, y): one entry of the outer product of two vectors
O2(x, y, a, b) == x[a] * y[b]

\* bond vectors rij_tc, rik_tc and rjk_tc of every triplet
TripletVectors(pairs, triplets) ==
    Array([t \in 1..Len(triplets) |->
        [ij |-> pairs[triplets[t][1]].D, ik |-> pairs[triplets[t][2]].D,
         jk |-> VSub(pairs[triplets[t][2]].D, pairs[triplets[t][1]].D)]])

\* Term 2: d11phi_p on the fourfold outer product of the pair vector
BornTerm2(d11phi_p, pairs, ix) ==
    SumSeq([p \in 1..Len(pairs) |->
        d11phi_p[p] * O4(pairs[p].D, pairs[p].D, pairs[p].D, pairs[p].D, ix)])

\* Term 3: d2phi of the ij pair on the second derivatives of theta
BornTerm3(d2phi_p, th, triplets, v, ix) ==
    SumSeq([t \in 1..Len(triplets) |->
        d2phi_p[triplets[t][1]] *
        ( th.d11theta[t] * O4(v[t].ij, v[t].ij, v[t].ij, v[t].ij, ix)
        + th.d12theta[t] * (O4(v[t].ij, v[t].ij, v[t].ik, v[t].ik, ix)
                            + O4(v[t].ik, v[t].ik, v[t].ij, v[t].ij, ix))
        + th.d13theta[t] * (O4(v[t].ij, v[t].ij, v[t].jk, v[t].jk, ix)
                            + O4(v[t].jk, v[t].jk, v[t].ij, v[t].ij, ix))
        + th.d22theta[t] * O4(v[t].ik, v[t].ik, v[t].ik, v[t].ik, ix)
        + th.d23theta[t] * (O4(v[t].ik, v[t].ik, v[t].jk, v[t].jk, ix)
                            + O4(v[t].jk, v[t].jk, v[t].ik, v[t].ik, ix))
        + th.d33theta[t] * O4(v[t].jk, v[t].jk, v[t].jk, v[t].jk, ix) )])

\* variant of BornTerm4 whose d2theta term interleaves the two bond vectors,
\* _o(rij, rik, rij, rik) + _o(rik, rij, rik, rij) (breaks C13)
BornTerm4Interleaved(d12phi_p, th, triplets, v, ix) ==
    SumSeq([t \in 1..Len(triplets) |->
        d12phi_p[triplets[t][1]] *
        ( 2 * th.d1theta[t] * O4(v[t].ij, v[t].ij, v[t].ij, v[t].ij, ix)
        + th.d2theta[t] * (O4(v[t].ij, v[t].ik, v[t].ij, v[t].ik, ix)
                           + O4(v[t].ik, v[t].ij, v[t].ik, v[t].ij, ix))
        + th.d3theta[t] * (O4(v[t].ij, v[t].ij, v[t].jk, v[t].jk, ix)
                           + O4(v[t].jk, v[t].jk, v[t].ij, v[t].ij, ix)) )])

\* Term 4: d12phi of the ij pair on the first derivatives of theta
BornTerm4(d12phi_p, th, triplets, v, ix) ==
    SumSeq([t \in 1..Len(triplets) |->
        d12phi_p[triplets[t][1]] *
        ( 2 * th.d1theta[t] * O4(v[t].ij, v[t].ij, v[t].ij, v[t].ij, ix)
        + th.d2theta[t] * (O4(v[t].ij, v[t].ij, v[t].ik, v[t].ik, ix)
                           + O4(v[t].ik, v[t].ik, v[t].ij, v[t].ij, ix))
        + th.d3theta[t] * (O4(v[t].ij, v[t].ij, v[t].jk, v[t].jk, ix)
                           + O4(v[t].jk, v[t].jk, v[t].ij, v[t].ij, ix)) )])

\* tmpij_pcc: mabincount by the ij pair of the three outer products of a triplet
\* weighted by d1theta_t, d2theta_t and d3theta_t (3 x 3 blocks stored row-major)
BornTmp(th, triplets, v, nb_pairs) ==
    Mabincount(IjOf(triplets),
               Array([t \in 1..Len(triplets) |-> Array([ab \in 1..9 |->
                   LET a == ((ab - 1) \div 3) + 1
                       b == ((ab - 1) % 3) + 1
                   IN  th.d1theta[t] * O2(v[t].ij, v[t].ij, a, b)
                       + th.d2theta[t] * O2(v[t].ik, v[t].ik, a, b)
                       + th.d3theta[t] * O2(v[t].jk, v[t].jk, a, b)])]),
               nb_pairs, 9)

\* Term 5: d22phi_p on the square of tmpij_pcc
BornTerm5(d22phi_p, tmp, ix) ==
    SumSeq([p \in 1..Len(d22phi_p) |->
        d22phi_p[p] * tmp[p][3 * (ix[1] - 1) + ix[2]]
                    * tmp[p][3 * (ix[3] - 1) + ix[4]]])

\* x.reshape(-1, 3, ...) of _o regroups the nb_pairs * dim numbers of r_pc in
\* threes, and the product with a per-pair array must broadcast
BornShapesFit(nb_pairs, dim) ==
    /\ (nb_pairs * dim) % 3 = 0
    /\ LET rows == (nb_pairs * dim) \div 3
       IN  rows = nb_pairs \/ rows = 1 \/ nb_pairs = 1

BornRun(sd, cut, atoms, nb_atoms) ==
    LET pairs    == PairList(cut, atoms, 1)
        triplets == TripletList(FirstNeighbours(nb_atoms, OwnerOf(pairs)))
        th       == ThetaArrays(sd, atoms, pairs, triplets)
        xi_p     == XiAccumulate(IjOf(triplets), IkOf(triplets), th.theta, Len(pairs))
        d2phi_p  == PhiOnPairs(sd, "d2phi", atoms, pairs, xi_p)
        d11phi_p == PhiOnPairs(sd, "d11phi", atoms, pairs, xi_p)
        d22phi_p == PhiOnPairs(sd, "d22phi", atoms, pairs, xi_p)
        d12phi_p == PhiOnPairs(sd, "d12phi", atoms, pairs, xi_p)
        v        == TripletVectors(pairs, triplets)
        tmp      == BornTmp(th, triplets, v, Len(pairs))
        outcome  == IF BornShapesFit(Len(pairs), Dimension(atoms))
                    THEN "returned" ELSE "ValueError"
        C_abab   == Array([n \in 1..81 |->
                        IF Dimension(atoms) = 3
                        THEN BornTerm2(d11phi_p, pairs, Index4[n])
                             + BornTerm3(d2phi_p, th, triplets, v, Index4[n])
                             + BornTerm4(d12phi_p, th, triplets, v, Index4[n])
                             + BornTerm5(d22phi_p, tmp, Index4[n])
                        ELSE 0])
    IN  Trace("get_born_elastic_constants", atoms, outcome, nb_atoms, pairs,
              triplets, th.theta, xi_p,
              ThetaSet \cup {"d2phi", "d11phi", "d22phi", "d12phi"},
              IF outcome = "returned"
              THEN Array([n \in 1..81 |-> Frac(2 * C_abab[n], GetVolume(atoms))])
              ELSE <<>>)

BornTable ==
    Stored([k \in Seeds \X CutoffParams \X Configurations \X AtomCounts |->
               BornRun(k[1], k[2], k[3], k[4])])

GetBornElasticConstants(atoms) ==
    LET nb_atoms == NbAtoms(BindAtoms(self_atoms, atoms))
        run      == BornTable[<<seed, cutoff, atoms, nb_atoms>>]
    IN  \E how \in ProviderOutcomes(atoms, nb_atoms, run.pairs) :
            /\ self_atoms' = BindAtoms(self_atoms, atoms)
            /\ call' = Ended(run, how)
            /\ UNCHANGED <<seed, cutoff, self_results, assembly, solver, nonaffine, probe>>

(***************************************************************************)
(* get_second_derivative and get_non_affine_forces                         *)
(***************************************************************************)
\* both stop at self.G(...): the instance has no attribute G.  Up to there
\* they bind self.atoms, take nb_atoms from it and build the pair list
\* (get_second_derivative: called without a pair list, it builds its own)
GetSecondDerivative(atoms) ==
    LET nb_atoms == NbAtoms(BindAtoms(self_atoms, atoms))
        pairs    == PairListTable[<<cutoff, atoms, 1>>]
        run      == Trace("get_second_derivative", atoms, "AttributeError", nb_atoms,
                          pairs, <<>>, <<>>, <<>>, {}, <<>>)
    IN  \E how \in ProviderOutcomes(atoms, nb_atoms, pairs) :
            /\ self_atoms' = BindAtoms(self_atoms, atoms)
            /\ call' = Ended(run, how)
            /\ UNCHANGED <<seed, cutoff, self_results, assembly, solver, nonaffine, probe>>

GetNonAffineForces(atoms) ==
    LET nb_atoms == NbAtoms(BindAtoms(self_atoms, atoms))
        pairs    == PairListTable[<<cutoff, atoms, 1>>]
        run      == Trace("get_non_affine_forces", atoms, "AttributeError", nb_atoms,
                          pairs, <<>>, <<>>, <<>>, {}, <<>>)
    IN  \E how \in ProviderOutcomes(atoms, nb_atoms, pairs) :
            /\ self_atoms' = BindAtoms(self_atoms, atoms)
            /\ call' = Ended(run, how)
            /\ UNCHANGED <<seed, cutoff, self_results, assembly, solver, nonaffine, probe>>

(***************************************************************************)
(* get_hessian from the symmetrization on (lines 287 to 311)                *)
(*                                                                         *)
(* The right-hand side of "H_pcc =" is not in the file, and the operation   *)
(* stops before it (R_p).  What follows the assignment is code: it is       *)
(* started here on any array of per-pair 3 x 3 blocks, with the pair list   *)
(* of atoms and the atom count of self.atoms.                               *)
(***************************************************************************)
\* 3 x 3 blocks are stored row-major
Entry(x, y) == 3 * (x - 1) + y

Transpose3(b) == Array([k \in 1..9 |-> b[Entry(((k - 1) % 3) + 1, ((k - 1) \div 3) + 1)]])

IsSymmetric3(b) == b = Transpose3(b)

\* sum of a sequence of blocks
BlockSum(bs) == VSum(bs, 9)

\* elementwise sum of a sequence of blocks of fractions
FBlockSum(bs) == Array([k \in 1..9 |-> FSum([n \in 1..Len(bs) |-> bs[n][k]])])

FBlockZero == Array([k \in 1..9 |-> Frac(0, 1)])

\* the blocks the analytic term can leave in H_pcc
BlockSet == { <<1, 2, 0, 0, 0, 0, 0, 0, 3>>, <<0, 0, 0, 1, 0, 0, 0, 0, 1>> }

\* all arrays of n blocks
RECURSIVE BlockArrays(_)
BlockArrays(n) ==
    IF n = 0 THEN { <<>> }
    ELSE { Append(bs, b) : bs \in BlockArrays(n - 1), b \in BlockSet }

\* variant of Symmetrize that adds the mirror block without transposing it
\* (breaks C7)
SymmetrizeUntransposed(H_pcc, tr_p) ==
    Array([p \in 1..Len(H_pcc) |-> VAdd(H_pcc[p], H_pcc[tr_p[p]])])

\* H_pcc += H_pcc.transpose(0, 2, 1)[tr_p]
Symmetrize(H_pcc, tr_p) ==
    Array([p \in 1..Len(H_pcc) |-> VAdd(H_pcc[p], Transpose3(H_pcc[tr_p[p]]))])

\* H_acc[:, x, y] = -np.bincount(i_p, weights=H_pcc[:, x, y]) for all x, y: the
\* bincount has one entry per atom index up to the largest owner, and the
\* assignment needs nb_atoms entries or one entry that it repeats
DiagonalBlocks(i_p, H_pcc, nb_atoms) ==
    LET acc  == Mabincount(i_p, [p \in 1..Len(H_pcc) |-> VScale(-1, H_pcc[p])], 0, 9)
        fits == Len(acc) = nb_atoms \/ Len(acc) = 1
    IN  [outcome |-> IF fits THEN "continues" ELSE "ValueError",
         H_acc   |-> IF fits
                     THEN Array([a \in 1..nb_atoms |->
                                    IF Len(acc) = 1 THEN acc[1] ELSE acc[a]])
                     ELSE <<>>]

\* bsr_matrix((blocks, j_p, first_n)) + bsr_matrix((diagonal, arange, arange)):
\* block (a, b) of the sum, blocks of one place being added up
SparseBlock(blocks, diagonal, j_p, first_n, a, b) ==
    LET row == { p \in first_n[a]..(first_n[a + 1] - 1) : j_p[p] = b }
        at  == SelectSeq(blocks, LAMBDA e : e.p \in row)
    IN  FBlockSum([n \in 1..Len(at) |-> at[n].block]
                  \o (IF a = b THEN <<diagonal[a]>> ELSE <<>>))

\* the value get_hessian returns for format = "sparse"
SparseHessian(H_pcc, H_acc, i_p, j_p, masses, nb_atoms, divide_by_masses) ==
    LET first_n  == FirstNeighbours(nb_atoms, i_p)
        \* (H_acc.T / (2 * mass_nat)).T needs one mass per row of H_acc, or one mass
        fits     == ~divide_by_masses \/ Len(masses) = nb_atoms \/ Len(masses) = 1
        Mass(a)  == IF Len(masses) = 1 THEN masses[1] ELSE masses[a]
        blocks   == Array([p \in 1..Len(H_pcc) |->
                       [p |-> p,
                        block |-> Array([k \in 1..9 |->
                            Frac(H_pcc[p][k],
                                 IF divide_by_masses
                                 THEN 2 * ISqrt(masses[i_p[p]] * masses[j_p[p]])
                                 ELSE 2)])]])
        diagonal == Array([a \in 1..nb_atoms |-> Array([k \in 1..9 |->
                        Frac(H_acc[a][k],
                             IF divide_by_masses THEN 2 * Mass(a) ELSE 2)])])
    IN  [outcome |-> IF fits THEN "returned" ELSE "ValueError",
         value   |-> IF fits
                     THEN Array([a \in 1..nb_atoms |-> Array([b \in 1..nb_atoms |->
                              SparseBlock(blocks, diagonal, j_p, first_n, a, b)])])
                     ELSE <<>>]

\* H_pcc / 2 of format = "neighbour-list"
HalfBlocks(H_pcc) ==
    Array([p \in 1..Len(H_pcc) |-> Array([k \in 1..9 |-> Frac(H_pcc[p][k], 2)])])

Formats == {"sparse", "neighbour-list", "dense"}

\* configurations of three Cartesian components
Spatial == { c \in Configurations : Dimension(c) = 3 }

\* the states in which line 287 is reached: self.atoms was bound by this call
\* or by an earlier one, to a configuration with at least the atoms of atoms
InitAssembly ==
    /\ seed \in Seeds
    /\ cutoff \in CutoffParams
    /\ self_results = NoResults
    /\ call = [op |-> "__init__"]
    /\ nonaffine = [pc |-> "idle"]
    /\ probe = [pc |-> "idle"]
    /\ solver = [pc |-> "idle"]
    /\ \E atoms \in Spatial, format \in Formats, divide_by_masses \in BOOLEAN :
         LET pairs == PairListTable[<<cutoff, atoms, 2>>]
         IN  /\ self_atoms \in {atoms} \cup { c \in { Window(1, n) : n \in AtomCounts } :
                                                NbAtoms(c) > NbAtoms(atoms) }
             /\ \E raw \in BlockArrays(Len(pairs)) :
                  assembly = [pc |-> "term1", atoms |-> atoms, format |-> format,
                              divide_by_masses |-> divide_by_masses,
                              nb_atoms |-> NbAtoms(self_atoms),
                              i_p |-> OwnerOf(pairs), j_p |-> NeighbourOf(pairs),
                              tr_p |-> ReversedPairs(pairs),
                              raw |-> raw, H_pcc |-> raw, H_acc |-> <<>>,
                              outcome |-> "running", value |-> <<>>]

\* line 287
AssemblySymmetrize ==
    /\ assembly.pc = "term1"
    /\ assembly' = [assembly EXCEPT !.pc = "symmetrized",
                                    !.H_pcc = Symmetrize(assembly.H_pcc, assembly.tr_p)]
    /\ UNCHANGED <<seed, cutoff, self_atoms, self_results, call, solver, nonaffine, probe>>

\* lines 291 to 294
AssemblyDiagonal ==
    /\ assembly.pc = "symmetrized"
    /\ assembly.format = "sparse"
    /\ LET d == DiagonalBlocks(assembly.i_p, assembly.H_pcc, assembly.nb_atoms)
       IN  assembly' = IF d.outcome = "continues"
                       THEN [assembly EXCEPT !.pc = "diagonal", !.H_acc = d.H_acc]
                       ELSE [assembly EXCEPT !.pc = "raised", !.outcome = d.outcome]
    /\ UNCHANGED <<seed, cutoff, self_atoms, self_results, call, solver, nonaffine, probe>>

\* lines 296 to 307
AssemblyReturnSparse ==
    /\ assembly.pc = "diagonal"
    /\ LET r == SparseHessian(assembly.H_pcc, assembly.H_acc, assembly.i_p,
                              assembly.j_p, assembly.atoms.masses, assembly.nb_atoms,
                              assembly.divide_by_masses)
       IN  assembly' = [assembly EXCEPT
                           !.pc = IF r.outcome = "returned" THEN "returned" ELSE "raised",
                           !.outcome = r.outcome, !.value = r.value]
    /\ UNCHANGED <<seed, cutoff, self_atoms, self_results, call, solver, nonaffine, probe>>

\* lines 310 and 311
AssemblyReturnNeighbourList ==
    /\ assembly.pc = "symmetrized"
    /\ assembly.format = "neighbour-list"
    /\ assembly' = [assembly EXCEPT !.pc = "returned", !.outcome = "returned",
                                    !.value = HalfBlocks(assembly.H_pcc)]
    /\ UNCHANGED <<seed, cutoff, self_atoms, self_results, call, solver, nonaffine, probe>>

\* any other format: neither branch is taken and the operation returns None
AssemblyReturnNone ==
    /\ assembly.pc = "symmetrized"
    /\ assembly.format \notin {"sparse", "neighbour-list"}
    /\ assembly' = [assembly EXCEPT !.pc = "returned", !.outcome = "returned None"]
    /\ UNCHANGED <<seed, cutoff, self_atoms, self_results, call, solver, nonaffine, probe>>

(***************************************************************************)
(* get_non_affine_contribution_to_elastic_constants: the conjugate-gradient *)
(* branch (lines 625 to 643), started with the Hessian and the non-affine   *)
(* forces of one atom at hand                                              *)
(***************************************************************************)
\* the statuses scipy's cg can report: 0 is success
Infos == {-1, 0, 1}

\* the solutions cg can hand back for one atom (3 * nat numbers)
Solutions == { <<0, 0, 0>>, <<1, 0, -1>> }

\* naforces_icab of one atom, as rows [n][a, b] of reshape(3 * nat, 3, 3, 1, 1)
NonAffineForces ==
    { << <<1, 0, 0, 0, 0, 0, 0, 0, 0>>, <<0, 1, 0, 1, 0, 0, 0, 0, 0>>,
         <<0, 0, 0, 0, 0, 0, 0, 0, 2>> >>,
      << <<0, 0, 1, 0, 0, 0, 0, 0, 0>>, <<0, 0, 0, 0, 1, 0, 0, 0, 0>>,
         <<0, 0, 0, 0, 0, 1, 0, 0, 0>> >> }

\* raise RuntimeError(...): the exception of lines 634 and 635 for status info
CGError(info) ==
    [type    |-> "RuntimeError",
     message |-> " info > 0: CG tolerance not achieved, info < 0: Exceeded number of iterations."]

\* C_abab of line 638: sum over n of naforces[n, a, b] * D_iab[n, c, d], where
\* column k = 3 * i + j of D_iab is the solution of solve (i, j)
Contract(naforces, D_iab) ==
    Array([n \in 1..81 |->
        LET ix == Index4[n]
        IN  SumSeq([m \in 1..Len(naforces) |->
                naforces[m][Entry(ix[1], ix[2])] * D_iab[Entry(ix[3], ix[4])][m]])])

\* the eigenvalues and eigenvectors a caller can hand over for one atom:
\* eigenvectors[n][m] is component n of eigenvector m
Eigenvalues == { <<1, 4, 9>>, <<4, 1, 1>> }

Eigenvectors ==
    { << <<1, 0, 0>>, <<0, 1, 0>>, <<0, 0, 1>> >>,
      << <<0, 1, 0>>, <<1, 0, 1>>, <<0, -1, 1>> >> }

\* lines 620 to 622: G_icc[m][a, b], the sum over n of
\* eigenvectors[n][m] * naforces[n][a, b], over np.sqrt(eigenvalues[m])
Project(naforces, eigenvalues, eigenvectors) ==
    Array([m \in 1..Len(eigenvalues) |-> Array([k \in 1..9 |->
        Frac(SumSeq([n \in 1..Len(naforces) |-> eigenvectors[n][m] * naforces[n][k]]),
             ISqrt(eigenvalues[m]))])])

\* C_abab of line 623: sum over m of G_icc[m][a, b] * G_icc[m][c, d]
ContractSpectral(G_icc) ==
    Array([n \in 1..81 |->
        LET ix == Index4[n]
        IN  FSum([m \in 1..Len(G_icc) |->
                LET x == G_icc[m][Entry(ix[1], ix[2])]
                    y == G_icc[m][Entry(ix[3], ix[4])]
                IN  Frac(x.n * y.n, x.d * y.d)])])

\* an array of whole numbers as an array of exact quotients
Exact(C) == Array([n \in 1..Len(C) |-> Frac(C[n], 1)])

\* variant of SymmetrizeMinor that averages over the swap of the first two axes
\* only (breaks C14)
SymmetrizeFirstAxesOnly(C) ==
    Array([n \in 1..81 |->
        LET ix == Index4[n]
            s  == FAdd(C[At4(ix[1], ix[2], ix[3], ix[4])],
                       C[At4(ix[2], ix[1], ix[3], ix[4])])
        IN  Frac(s.n, 2 * s.d)])

\* line 641: the mean over swapping the first two and the last two axes
SymmetrizeMinor(C) ==
    Array([n \in 1..81 |->
        LET ix == Index4[n]
            s  == FSum(<<C[At4(ix[1], ix[2], ix[3], ix[4])],
                         C[At4(ix[2], ix[1], ix[3], ix[4])],
                         C[At4(ix[1], ix[2], ix[4], ix[3])],
                         C[At4(ix[2], ix[1], ix[4], ix[3])]>>)
        IN  Frac(s.n, 4 * s.d)])

\* line 643: -C_abab / atoms.get_volume()
NegateOverVolume(C, volume) ==
    Array([n \in 1..81 |-> Frac(0 - C[n].n, C[n].d * volume)])

InitCG ==
    /\ seed \in Seeds
    /\ cutoff \in CutoffParams
    /\ self_atoms = Periodic
    /\ self_results = NoResults
    /\ call = [op |-> "__init__"]
    /\ nonaffine = [pc |-> "idle"]
    /\ probe = [pc |-> "idle"]
    /\ assembly = [pc |-> "idle"]
    /\ \E naforces \in NonAffineForces, path \in {"cg", "spectral"} :
         solver = [pc |-> IF path = "cg" THEN "solving" ELSE "projecting",
                   path |-> path, naforces |-> naforces, D_iab |-> <<>>,
                   info |-> 0, cg_calls |-> 0, error |-> [type |-> "none"],
                   C_abab |-> <<>>, value |-> <<>>]

\* one turn of the loops of lines 630 to 636: cg hands back a solution and a status
CGSolve(x, info) ==
    /\ solver.pc = "solving"
    /\ Len(solver.D_iab) < 9
    /\ solver' = IF info # 0
                 THEN [solver EXCEPT !.pc = "raised", !.info = info,
                                     !.cg_calls = @ + 1, !.error = CGError(info)]
                 ELSE [solver EXCEPT !.D_iab = Append(@, x), !.info = info,
                                     !.cg_calls = @ + 1]
    /\ UNCHANGED <<seed, cutoff, self_atoms, self_results, call, assembly, nonaffine, probe>>

\* lines 638 to 643
CGReturn ==
    /\ solver.pc = "solving"
    /\ Len(solver.D_iab) = 9
    /\ LET C_abab == Exact(Contract(solver.naforces, solver.D_iab))
       IN  solver' = [solver EXCEPT
                         !.pc = "returned",
                         !.C_abab = C_abab,
                         !.value = NegateOverVolume(SymmetrizeMinor(C_abab),
                                                    GetVolume(self_atoms))]
    /\ UNCHANGED <<seed, cutoff, self_atoms, self_results, call, assembly, nonaffine, probe>>

\* lines 617 to 623 and 641 to 643: eigenvalues and eigenvectors were given
SpectralReturn(eigenvalues, eigenvectors) ==
    /\ solver.pc = "projecting"
    /\ LET C_abab == ContractSpectral(Project(solver.naforces, eigenvalues, eigenvectors))
       IN  solver' = [solver EXCEPT
                         !.pc = "returned",
                         !.C_abab = C_abab,
                         !.value = NegateOverVolume(SymmetrizeMinor(C_abab),
                                                    GetVolume(self_atoms))]
    /\ UNCHANGED <<seed, cutoff, self_atoms, self_results, call, assembly, nonaffine, probe>>

(***************************************************************************)
(* get_non_affine_forces from the derivative of xi on (lines 690 to 748)    *)
(*                                                                         *)
(* The operation stops at self.G (line 675).  What follows the calls of the *)
(* G and F functions is code: it is started here with values of those       *)
(* functions at hand, the pair list of atoms and the atom count of          *)
(* self.atoms.                                                              *)
(***************************************************************************)
\* exact quotients: product, negation, a whole number
FMul(x, y) == Frac(x.n * y.n, x.d * y.d)
FNeg(x) == Frac(0 - x.n, x.d)
FInt(k) == Frac(k, 1)

\* an array [c, a, b] of 3 x 3 x 3 numbers stored row-major, built entry by entry
Tensor3(F(_, _, _)) ==
    Array([k \in 1..27 |-> F(((k - 1) \div 9) + 1, (((k - 1) \div 3) % 3) + 1,
                             ((k - 1) % 3) + 1)])

T3Zero == Array([k \in 1..27 |-> FInt(0)])
T3Add(x, y) == Array([k \in 1..27 |-> FAdd(x[k], y[k])])
T3Neg(x) == Array([k \in 1..27 |-> FNeg(x[k])])

RECURSIVE T3Sum(_)
T3Sum(xs) == IF xs = <<>> THEN T3Zero ELSE T3Add(Head(xs), T3Sum(Tail(xs)))

\* elementwise sum and difference of two arrays of such tensors
T3ArrayAdd(x, y) == Array([k \in 1..Len(x) |-> T3Add(x[k], y[k])])
T3ArraySub(x, y) == Array([k \in 1..Len(x) |-> T3Add(x[k], T3Neg(y[k]))])

\* mabincount(x, weights, minlength) on weights of shape [c, a, b]
Mabincount3(x, weights, minlength) ==
    Array([k \in 1..Max2(minlength, MaxSeq(x)) |->
        LET at == SelectSeq([t \in 1..Len(x) |-> t], LAMBDA t : x[t] = k)
        IN  T3Sum([n \in 1..Len(at) |-> weights[at[n]]])])

\* the values a G or F function hands back: whole numbers from -2 to 2 that
\* depend on the function, on its arguments and on the component asked for
Returned(sd, index, arguments, component) ==
    (((sd + index) * (1 + arguments + 7 * component)) % 5) - 2

\* G_t, d1G_tc, d2G_tc, d11G_tcc, d12G_tcc and d22G_tcc of every triplet, as
\* functions of r_pc[ij_t], r_pc[ik_t] and the types
GValues(sd, atoms, pairs, triplets) ==
    Array([t \in 1..Len(triplets) |->
        LET ij   == pairs[triplets[t][1]]
            ik   == pairs[triplets[t][2]]
            ti   == AtomType(atoms.numbers[ij.i])
            args == VNorm2(VAdd(ij.D, VScale(2, ik.D))) + ij.r + 3 * ik.r + ti
                    + PairType(ti, AtomType(atoms.numbers[ij.j]))
                    + 2 * PairType(ti, AtomType(atoms.numbers[ik.j]))
        IN  [G    |-> Returned(sd, 1, args, 0),
             d1G  |-> Array([c \in 1..3 |-> Returned(sd, 2, args, c)]),
             d2G  |-> Array([c \in 1..3 |-> Returned(sd, 3, args, c)]),
             d11G |-> Array([k \in 1..9 |-> Returned(sd, 4, args, k)]),
             d12G |-> Array([k \in 1..9 |-> Returned(sd, 5, args, k)]),
             d22G |-> Array([k \in 1..9 |-> Returned(sd, 6, args, k)])]])

\* d1F_p, d2F_p, d11F_p, d12F_p and d22F_p of every pair, as functions of r_p,
\* xi_p and the types
FValues(sd, atoms, pairs, xi_p) ==
    Array([p \in 1..Len(pairs) |->
        LET ti   == AtomType(atoms.numbers[pairs[p].i])
            args == pairs[p].r + 3 * (xi_p[p] + 20) + ti
                    + 5 * PairType(ti, AtomType(atoms.numbers[pairs[p].j]))
        IN  [d1F  |-> Returned(sd, 7, args, 0), d2F  |-> Returned(sd, 8, args, 0),
             d11F |-> Returned(sd, 9, args, 0), d12F |-> Returned(sd, 10, args, 0),
             d22F |-> Returned(sd, 11, args, 0)]])

\* n_pc = (r_pc.T / r_p).T: component c of the normal vector of a pair
Normal(pair, c) == Frac(pair.D[c], pair.r)

\* dn_pcc = ((np.eye(3) - _o(n_pc, n_pc)).T / r_p).T: entry (c, a)
NormalDerivative(pair, c, a) ==
    Frac((IF c = a THEN pair.r * pair.r ELSE 0) - pair.D[c] * pair.D[a],
         pair.r * pair.r * pair.r)

\* dxidF_pab = mabincount(ij_t, _o(d1G_tc, r_pc[ij_t]) + _o(d2G_tc, r_pc[ik_t]),
\*                        minlength=nb_pairs): 3 x 3 blocks [a, b]
XiGradient(pairs, triplets, g) ==
    Mabincount(IjOf(triplets),
               Array([t \in 1..Len(triplets) |-> Array([k \in 1..9 |->
                   LET a == ((k - 1) \div 3) + 1
                       b == ((k - 1) % 3) + 1
                   IN  g[t].d1G[a] * pairs[triplets[t][1]].D[b]
                       + g[t].d2G[a] * pairs[triplets[t][2]].D[b]])]),
               Len(pairs), 9)

\* the arrays naF1_ncab and naF4_ncab (one tensor per pair) and naF21_tcab to
\* naF53_tcab (one tensor per triplet) of lines 693 to 730
NonAffineTerms(pairs, triplets, g, f, dxidF_pab) ==
    LET P(p) == pairs[p]
        Ij(t) == pairs[triplets[t][1]]
        Ik(t) == pairs[triplets[t][2]]
        OnPairs(F(_, _, _, _)) ==
            Array([p \in 1..Len(pairs) |->
                LET E(c, a, b) == F(p, c, a, b) IN Tensor3(E)])
        OnTriplets(F(_, _, _, _)) ==
            Array([t \in 1..Len(triplets) |->
                LET E(c, a, b) == F(t, c, a, b) IN Tensor3(E)])
        \* the four outer products of Term 2
        A(t, c, a, b) == FMul(Normal(Ij(t), c), FInt(g[t].d1G[a] * Ij(t).D[b]))
        B(t, c, a, b) == FMul(Normal(Ij(t), c), FInt(g[t].d2G[a] * Ik(t).D[b]))
        C(t, c, a, b) == FMul(Normal(Ij(t), a), FInt(g[t].d1G[c] * Ij(t).D[b]))
        D(t, c, a, b) == FMul(Normal(Ij(t), a), FInt(g[t].d2G[c] * Ij(t).D[b]))
        d12F(t) == FInt(f[triplets[t][1]].d12F)
        d22F(t) == f[triplets[t][1]].d22F
        d2F(t)  == f[triplets[t][1]].d2F
        F1(p, c, a, b) ==
            FMul(FInt(f[p].d11F * P(p).D[b]), FMul(Normal(P(p), c), Normal(P(p), a)))
        F21(t, c, a, b) ==
            FMul(d12F(t), FSum(<<A(t, c, a, b), B(t, c, a, b), C(t, c, a, b),
                                 D(t, c, a, b)>>))
        F22(t, c, a, b) ==
            FNeg(FMul(d12F(t), FSum(<<A(t, c, a, b), B(t, c, a, b), C(t, c, a, b)>>)))
        F23(t, c, a, b) == FNeg(FMul(d12F(t), D(t, c, a, b)))
        F31(t, c, a, b) ==
            FInt(d22F(t) * g[t].d1G[c] * dxidF_pab[triplets[t][1]][Entry(a, b)])
        F32(t, c, a, b) ==
            FInt(d22F(t) * g[t].d2G[c] * dxidF_pab[triplets[t][1]][Entry(a, b)])
        F4(p, c, a, b) ==
            FMul(FInt(f[p].d1F * P(p).D[b]), NormalDerivative(P(p), c, a))
        F51(t, c, a, b) ==
            FInt(d2F(t) * ( g[t].d11G[Entry(c, a)] * Ij(t).D[b]
                          + g[t].d12G[Entry(c, a)] * Ik(t).D[b]
                          + g[t].d22G[Entry(c, a)] * Ik(t).D[b]
                          + g[t].d12G[Entry(a, c)] * Ij(t).D[b] ))
        F52(t, c, a, b) ==
            FInt(0 - d2F(t) * ( g[t].d11G[Entry(c, a)] * Ij(t).D[b]
                              + g[t].d12G[Entry(c, a)] * Ik(t).D[b] ))
        F53(t, c, a, b) ==
            FInt(0 - d2F(t) * ( g[t].d12G[Entry(a, c)] * Ij(t).D[b]
                              + g[t].d22G[Entry(c, a)] * Ik(t).D[b] ))
    IN  [naF1  |-> OnPairs(F1),     naF4  |-> OnPairs(F4),
         naF21 |-> OnTriplets(F21), naF22 |-> OnTriplets(F22),
         naF23 |-> OnTriplets(F23), naF31 |-> OnTriplets(F31),
         naF32 |-> OnTriplets(F32), naF51 |-> OnTriplets(F51),
         naF52 |-> OnTriplets(F52), naF53 |-> OnTriplets(F53)]

\* variant of NonAffineScatter that adds naF31 to atom j where the code
\* subtracts it (breaks C16)
NonAffineScatterSignSlip(pairs, triplets, terms, nb_atoms) ==
    LET nt   == Len(triplets)
        i_p  == OwnerOf(pairs)
        j_p  == NeighbourOf(pairs)
        i_ij == Array([t \in 1..nt |-> pairs[triplets[t][1]].i])
        j_ij == Array([t \in 1..nt |-> pairs[triplets[t][1]].j])
        j_ik == Array([t \in 1..nt |-> pairs[triplets[t][2]].j])
        M(x, w) == Mabincount3(x, w, nb_atoms)
        Sum(xs) == LET RECURSIVE S(_)
                       S(n) == IF n = 1 THEN xs[1] ELSE T3ArrayAdd(S(n - 1), xs[n])
                   IN  S(Len(xs))
    IN  Sum(<< T3ArraySub(M(i_p, terms.naF1), M(j_p, terms.naF1)),
               M(i_ij, terms.naF21), M(j_ij, terms.naF22), M(j_ik, terms.naF23),
               T3ArrayAdd(M(i_ij, terms.naF31), M(j_ij, terms.naF31)),
               T3ArraySub(M(i_ij, terms.naF32), M(j_ik, terms.naF32)),
               T3ArraySub(M(i_p, terms.naF4), M(j_p, terms.naF4)),
               M(i_ij, terms.naF51), M(j_ij, terms.naF52), M(j_ik, terms.naF53) >>)

\* naforces_icab of lines 732 to 746
NonAffineScatter(pairs, triplets, terms, nb_atoms) ==
    LET nt   == Len(triplets)
        i_p  == OwnerOf(pairs)
        j_p  == NeighbourOf(pairs)
        i_ij == Array([t \in 1..nt |-> pairs[triplets[t][1]].i])
        j_ij == Array([t \in 1..nt |-> pairs[triplets[t][1]].j])
        j_ik == Array([t \in 1..nt |-> pairs[triplets[t][2]].j])
        M(x, w) == Mabincount3(x, w, nb_atoms)
        Sum(xs) == LET RECURSIVE S(_)
                       S(n) == IF n = 1 THEN xs[1] ELSE T3ArrayAdd(S(n - 1), xs[n])
                   IN  S(Len(xs))
    IN  Sum(<< T3ArraySub(M(i_p, terms.naF1), M(j_p, terms.naF1)),
               M(i_ij, terms.naF21), M(j_ij, terms.naF22), M(j_ik, terms.naF23),
               T3ArraySub(M(i_ij, terms.naF31), M(j_ij, terms.naF31)),
               T3ArraySub(M(i_ij, terms.naF32), M(j_ik, terms.naF32)),
               T3ArraySub(M(i_p, terms.naF4), M(j_p, terms.naF4)),
               M(i_ij, terms.naF51), M(j_ij, terms.naF52), M(j_ik, terms.naF53) >>)

\* naforces_icab / 2 of line 748
HalfTensors(naforces_icab) ==
    Array([i \in 1..Len(naforces_icab) |->
        Array([k \in 1..27 |-> Frac(naforces_icab[i][k].n, 2 * naforces_icab[i][k].d)])])

\* the states in which line 690 is reached: self.atoms was bound by this call
\* or by an earlier one, to a configuration with at least the atoms of atoms
InitNonAffine ==
    /\ seed \in Seeds
    /\ cutoff \in CutoffParams
    /\ self_results = NoResults
    /\ call = [op |-> "__init__"]
    /\ assembly = [pc |-> "idle"]
    /\ solver = [pc |-> "idle"]
    /\ probe = [pc |-> "idle"]
    /\ \E atoms \in Spatial :
         LET pairs == PairListTable[<<cutoff, atoms, 1>>]
         IN  /\ self_atoms \in {atoms} \cup { c \in { Window(1, n) : n \in AtomCounts } :
                                                NbAtoms(c) > NbAtoms(atoms) }
             /\ \E triplets \in {TripletList(FirstNeighbours(NbAtoms(self_atoms),
                                                             OwnerOf(pairs)))} :
                \E g \in {GValues(seed, atoms, pairs, triplets)} :
                \E xi_p \in {Bincount(IjOf(triplets),
                                      Array([t \in 1..Len(triplets) |-> g[t].G]),
                                      Len(pairs))} :
                  nonaffine = [pc |-> "functions", atoms |-> atoms,
                               nb_atoms |-> NbAtoms(self_atoms),
                               pairs |-> pairs, triplets |-> triplets, g |-> g,
                               f |-> FValues(seed, atoms, pairs, xi_p),
                               dxidF_pab |-> <<>>, terms |-> <<>>,
                               naforces_icab |-> <<>>, value |-> <<>>]

\* line 691
NonAffineXiGradient ==
    /\ nonaffine.pc = "functions"
    /\ nonaffine' = [nonaffine EXCEPT
                        !.pc = "gradient",
                        !.dxidF_pab = XiGradient(nonaffine.pairs, nonaffine.triplets,
                                                 nonaffine.g)]
    /\ UNCHANGED <<seed, cutoff, self_atoms, self_results, call, assembly, solver, probe>>

\* lines 693 to 730
NonAffineTermArrays ==
    /\ nonaffine.pc = "gradient"
    /\ nonaffine' = [nonaffine EXCEPT
                        !.pc = "terms",
                        !.terms = NonAffineTerms(nonaffine.pairs, nonaffine.triplets,
                                                 nonaffine.g, nonaffine.f,
                                                 nonaffine.dxidF_pab)]
    /\ UNCHANGED <<seed, cutoff, self_atoms, self_results, call, assembly, solver, probe>>

\* lines 732 to 746
NonAffineSum ==
    /\ nonaffine.pc = "terms"
    /\ nonaffine' = [nonaffine EXCEPT
                        !.pc = "scattered",
                        !.naforces_icab = NonAffineScatter(nonaffine.pairs,
                                                           nonaffine.triplets,
                                                           nonaffine.terms,
                                                           nonaffine.nb_atoms)]
    /\ UNCHANGED <<seed, cutoff, self_atoms, self_results, call, assembly, solver, probe>>

\* line 748
NonAffineReturn ==
    /\ nonaffine.pc = "scattered"
    /\ nonaffine' = [nonaffine EXCEPT !.pc = "returned",
                                      !.value = HalfTensors(nonaffine.naforces_icab)]
    /\ UNCHANGED <<seed, cutoff, self_atoms, self_results, call, assembly, solver, probe>>

(***************************************************************************)
(* get_second_derivative from Term 1 on (lines 380 to 408)                  *)
(*                                                                         *)
(* The operation stops at self.G (line 365).  What follows the calls of the *)
(* G and F functions is code: it is started here with values of those       *)
(* functions at hand and with two fields drda_pc and drdb_pc, and is called *)
(* a second time with the two fields exchanged.                             *)
(***************************************************************************)
\* the fields a caller hands over as drda_pc or drdb_pc: a unit displacement
\* of atom m along axis c (the neighbour end of a pair moves with atom j, the
\* owner end with atom i), or a unit strain (a, b) (component a of every pair
\* vector changes by component b of the pair vector)
Fields(pairs) ==
    LET Displaced(m, c) ==
            Array([p \in 1..Len(pairs) |-> Array([x \in 1..3 |->
                IF x = c
                THEN (IF pairs[p].j = m THEN 1 ELSE 0) - (IF pairs[p].i = m THEN 1 ELSE 0)
                ELSE 0])])
        Strained(a, b) ==
            Array([p \in 1..Len(pairs) |-> Array([x \in 1..3 |->
                IF x = a THEN pairs[p].D[b] ELSE 0])])
    IN  {Displaced(1, 1), Displaced(1, 3), Strained(1, 2), Strained(3, 3)}

\* drda_p = (n_pc * drda_pc).sum(axis=1)
LengthDerivative(pairs, dr_pc) ==
    LET Dot(u, v) == SumSeq([x \in 1..3 |-> u[x] * v[x]])
    IN  Array([p \in 1..Len(pairs) |->
            Frac(Dot(pairs[p].D, dr_pc[p]), pairs[p].r)])

\* variant of ProbeT2 without the two lines that have drda and drdb exchanged
\* (lines 385 and 387) (breaks C17)
ProbeT2OneSided(pairs, triplets, g, f, drda_pc, drdb_pc) ==
    LET Dot(u, v) == SumSeq([x \in 1..3 |-> u[x] * v[x]])
        da == LengthDerivative(pairs, drda_pc)
        db == LengthDerivative(pairs, drdb_pc)
    IN  FSum([t \in 1..Len(triplets) |->
            LET ij == triplets[t][1]
                ik == triplets[t][2]
            IN  FMul(FInt(f[ij].d12F),
                     FSum(<< FMul(FInt(Dot(g[t].d2G, drda_pc[ik])), db[ij]),
                             FMul(FInt(Dot(g[t].d1G, drda_pc[ij])), db[ij]) >>))])

\* Term 2 (lines 384 to 387)
ProbeT2(pairs, triplets, g, f, drda_pc, drdb_pc) ==
    LET Dot(u, v) == SumSeq([x \in 1..3 |-> u[x] * v[x]])
        da == LengthDerivative(pairs, drda_pc)
        db == LengthDerivative(pairs, drdb_pc)
    IN  FSum([t \in 1..Len(triplets) |->
            LET ij == triplets[t][1]
                ik == triplets[t][2]
            IN  FMul(FInt(f[ij].d12F),
                     FSum(<< FMul(FInt(Dot(g[t].d2G, drda_pc[ik])), db[ij]),
                             FMul(FInt(Dot(g[t].d2G, drdb_pc[ik])), da[ij]),
                             FMul(FInt(Dot(g[t].d1G, drda_pc[ij])), db[ij]),
                             FMul(FInt(Dot(g[t].d1G, drdb_pc[ij])), da[ij]) >>))])

\* T1 + T2 + T3 + T4 + T5 of lines 380 to 408; Q_pcc of line 397 is the array
\* dn_pcc of get_non_affine_forces
SecondDerivative(pairs, triplets, g, f, drda_pc, drdb_pc) ==
    LET Dot(u, v) == SumSeq([x \in 1..3 |-> u[x] * v[x]])
        da == LengthDerivative(pairs, drda_pc)
        db == LengthDerivative(pairs, drdb_pc)
        T1 == FSum([p \in 1..Len(pairs) |->
                  FMul(FInt(f[p].d11F), FMul(da[p], db[p]))])
        T2 == ProbeT2(pairs, triplets, g, f, drda_pc, drdb_pc)
        dxi_t(dr_pc) ==
            Array([t \in 1..Len(triplets) |->
                Dot(g[t].d1G, dr_pc[triplets[t][1]])
                + Dot(g[t].d2G, dr_pc[triplets[t][2]])])
        xa == Bincount(IjOf(triplets), dxi_t(drda_pc), Len(pairs))
        xb == Bincount(IjOf(triplets), dxi_t(drdb_pc), Len(pairs))
        T3 == FInt(SumSeq([p \in 1..Len(pairs) |-> f[p].d22F * xa[p] * xb[p]]))
        T4 == FSum([p \in 1..Len(pairs) |->
                  FMul(FInt(f[p].d1F),
                       FSum([k \in 1..9 |->
                           LET c == ((k - 1) \div 3) + 1
                               a == ((k - 1) % 3) + 1
                           IN  FMul(NormalDerivative(pairs[p], c, a),
                                    FInt(drda_pc[p][c] * drdb_pc[p][a]))]))])
        T5_t == Array([t \in 1..Len(triplets) |->
                    LET ij == triplets[t][1]
                        ik == triplets[t][2]
                    IN  SumSeq([k \in 1..9 |->
                            LET c == ((k - 1) \div 3) + 1
                                a == ((k - 1) % 3) + 1
                            IN  g[t].d11G[k] * drdb_pc[ij][c] * drda_pc[ij][a]
                                + g[t].d12G[k] * drda_pc[ij][c] * drdb_pc[ik][a]
                                + g[t].d12G[k] * drdb_pc[ij][c] * drda_pc[ik][a]
                                + g[t].d22G[k] * drdb_pc[ik][c] * drda_pc[ik][a]])])
        w == Bincount(IjOf(triplets), T5_t, Len(pairs))
        T5 == FInt(SumSeq([p \in 1..Len(pairs) |-> f[p].d2F * w[p]]))
    IN  FSum(<<T1, T2, T3, T4, T5>>)

\* the states in which line 380 is reached, for any two fields and for G values
\* with arbitrary d11G and d22G, or with their symmetric parts doubled
InitProbe ==
    /\ seed \in Seeds
    /\ cutoff \in CutoffParams
    /\ self_results = NoResults
    /\ call = [op |-> "__init__"]
    /\ assembly = [pc |-> "idle"]
    /\ solver = [pc |-> "idle"]
    /\ nonaffine = [pc |-> "idle"]
    /\ \E atoms \in Spatial, symmetric \in BOOLEAN :
         LET pairs == PairListTable[<<cutoff, atoms, 1>>]
         IN  /\ self_atoms = atoms
             /\ \E triplets \in {TripletList(FirstNeighbours(NbAtoms(atoms), OwnerOf(pairs)))} :
                \E raw \in {GValues(seed, atoms, pairs, triplets)} :
                \E g \in {IF symmetric
                           THEN Array([t \in 1..Len(raw) |->
                                    [raw[t] EXCEPT
                                       !.d11G = VAdd(raw[t].d11G, Transpose3(raw[t].d11G)),
                                       !.d22G = VAdd(raw[t].d22G, Transpose3(raw[t].d22G))]])
                           ELSE raw} :
                \E xi_p \in {Bincount(IjOf(triplets),
                                      Array([t \in 1..Len(triplets) |-> g[t].G]),
                                      Len(pairs))} :
                \E drda_pc \in Fields(pairs), drdb_pc \in Fields(pairs) :
                  probe = [pc |-> "functions", atoms |-> atoms, symmetric |-> symmetric,
                           pairs |-> pairs, triplets |-> triplets, g |-> g,
                           f |-> FValues(seed, atoms, pairs, xi_p),
                           drda_pc |-> drda_pc, drdb_pc |-> drdb_pc,
                           value |-> FInt(0), exchanged |-> FInt(0)]

\* lines 380 to 408, called with (drda_pc, drdb_pc)
ProbeCall ==
    /\ probe.pc = "functions"
    /\ probe' = [probe EXCEPT
                    !.pc = "returned",
                    !.value = SecondDerivative(probe.pairs, probe.triplets, probe.g,
                                               probe.f, probe.drda_pc, probe.drdb_pc)]
    /\ UNCHANGED <<seed, cutoff, self_atoms, self_results, call, assembly, solver, nonaffine>>

\* lines 380 to 408, called again with (drdb_pc, drda_pc)
ProbeCallExchanged ==
    /\ probe.pc = "returned"
    /\ probe' = [probe EXCEPT
                    !.pc = "returned twice",
                    !.exchanged = SecondDerivative(probe.pairs, probe.triplets, probe.g,
                                                   probe.f, probe.drdb_pc, probe.drda_pc)]
    /\ UNCHANGED <<seed, cutoff, self_atoms, self_results, call, assembly, solver, nonaffine>>

(***************************************************************************)
(* Specifications                                                          *)
(***************************************************************************)
vars == <<seed, cutoff, self_atoms, self_results, call, assembly, solver, nonaffine, probe>>

\* an evaluator after __init__
Init ==
    /\ seed \in Seeds
    /\ cutoff \in CutoffParams
    /\ self_atoms = NoAtoms
    /\ self_results = NoResults
    /\ call = [op |-> "__init__"]
    /\ nonaffine = [pc |-> "idle"]
    /\ probe = [pc |-> "idle"]
    /\ assembly = [pc |-> "idle"]
    /\ solver = [pc |-> "idle"]

\* the operations of the evaluator, called in any order with any configuration
Next ==
    \/ \E atoms \in Configurations : Calculate(atoms)
    \/ \E atoms \in Configurations : GetHessian(atoms)
    \/ \E atoms \in Configurations : GetBornElasticConstants(atoms)
    \/ \E atoms \in Configurations : GetSecondDerivative(atoms)
    \/ \E atoms \in Configurations : GetNonAffineForces(atoms)

Spec == Init /\ [][Next]_vars

\* the assembly of the Hessian, statement by statement
NextAssembly ==
    \/ AssemblySymmetrize
    \/ AssemblyDiagonal
    \/ AssemblyReturnSparse
    \/ AssemblyReturnNeighbourList
    \/ AssemblyReturnNone

SpecAssembly == InitAssembly /\ [][NextAssembly]_vars

\* get_cutoff on an evaluator constructed with a scalar or with a table
InitCutoff ==
    /\ seed \in Seeds
    /\ cutoff \in CutoffParams \cup CutoffTables
    /\ self_atoms = NoAtoms
    /\ self_results = NoResults
    /\ call = [op |-> "__init__"]
    /\ nonaffine = [pc |-> "idle"]
    /\ probe = [pc |-> "idle"]
    /\ assembly = [pc |-> "idle"]
    /\ solver = [pc |-> "idle"]

GetCutoffCall(atoms) ==
    /\ call' = [op |-> "get_cutoff", atoms |-> atoms, value |-> GetCutoff(cutoff, atoms)]
    /\ UNCHANGED <<seed, cutoff, self_atoms, self_results, assembly, solver, nonaffine, probe>>

NextCutoff == \E atoms \in Configurations : GetCutoffCall(atoms)

SpecCutoff == InitCutoff /\ [][NextCutoff]_vars

\* the conjugate-gradient loop, solve by solve
NextCG ==
    \/ \E x \in Solutions, info \in Infos : CGSolve(x, info)
    \/ CGReturn
    \/ \E eigenvalues \in Eigenvalues, eigenvectors \in Eigenvectors :
           SpectralReturn(eigenvalues, eigenvectors)

SpecCG == InitCG /\ [][NextCG]_vars

\* the non-affine forces, statement by statement
NextNonAffine ==
    \/ NonAffineXiGradient
    \/ NonAffineTermArrays
    \/ NonAffineSum
    \/ NonAffineReturn

SpecNonAffine == InitNonAffine /\ [][NextNonAffine]_vars

\* the second derivative for two fields, and for the two fields exchanged
NextProbe ==
    \/ ProbeCall
    \/ ProbeCallExchanged

SpecProbe == InitProbe /\ [][NextProbe]_vars

(***************************************************************************)
(* Properties                                                              *)
(***************************************************************************)
\* sum of f over a finite set of indices
RECURSIVE SumOver(_, _)
SumOver(S, f) ==
    IF S = {} THEN 0
    ELSE LET x == CHOOSE y \in S : TRUE IN f[x] + SumOver(S \ {x}, f)

\* C1: once calculate has returned, the forces it stored sum to the zero vector
\* over all atoms, whatever the pair list and the triplet list were (atoms
\* without pairs and pairs of an atom with its own image included)
C1_ForcesSumToZero ==
    self_results # NoResults =>
        VSum(self_results.forces, 3) = VZero(3)

\* calculate has returned for a configuration with triplets, and an atom feels
\* a force
C1_TripletForcesStored ==
    /\ call.op = "calculate"
    /\ call.outcome = "returned"
    /\ Len(call.triplets) > 0
    /\ \E a \in 1..Len(self_results.forces) : self_results.forces[a] # VZero(3)

\* C2: get_hessian, get_born_elastic_constants, get_second_derivative and
\* get_non_affine_forces work with the atom count of the configuration they are
\* called with, whatever was passed to earlier calls
C2_AtomCountOfTheArgument ==
    call.op \in {"get_hessian", "get_born_elastic_constants",
                 "get_second_derivative", "get_non_affine_forces"} =>
        call.nb_atoms = NbAtoms(call.atoms)

\* C3: get_hessian and get_born_elastic_constants, called with a configuration
\* that has not three Cartesian components, end with the error of an
\* unsupported operation
C3_NotSpatialIsUnsupported ==
    (/\ call.op \in {"get_hessian", "get_born_elastic_constants"}
     /\ Dimension(call.atoms) # 3) =>
        call.outcome = "NotImplementedError"

\* C4: when a solve ends with a status that is not zero, the error raised for
\* that status differs from the error raised for the status of the other sign,
\* so that the caller can tell the two reasons apart
C4_ErrorTellsTheReason ==
    solver.pc = "raised" =>
        CGError(solver.info) # CGError(0 - solver.info)

\* atom a of the configuration under assembly owns no pair
Isolated(a) == \A p \in 1..Len(assembly.i_p) : assembly.i_p[p] # a

\* C5: the assembly of the diagonal blocks of the sparse Hessian raises no
\* error for a configuration with an atom that has no neighbour, whatever the
\* index of that atom (the atom count being the one of the configuration)
C5_IsolatedAtomIsAccepted ==
    (/\ assembly.pc \in {"diagonal", "raised", "returned"}
     /\ assembly.nb_atoms = NbAtoms(assembly.atoms)
     /\ \E a \in 1..NbAtoms(assembly.atoms) : Isolated(a)) =>
        assembly.pc # "raised"

\* C6: every operation looks up only potential functions among the 16 given
\* to __init__
C6_OnlySuppliedFunctions ==
    call.op # "__init__" => call.invoked \subseteq SuppliedFunctions

\* the pairs owned by atom a
Owned(a) == { p \in 1..Len(assembly.i_p) : assembly.i_p[p] = a }

\* sum over the pairs owned by atom a of the block before symmetrization minus
\* the block of the mirror pair before symmetrization
RawImbalance(a) ==
    LET ps == SelectSeq([p \in 1..Len(assembly.i_p) |-> p], LAMBDA p : p \in Owned(a))
    IN  BlockSum([n \in 1..Len(ps) |->
            VSub(assembly.raw[ps[n]], assembly.raw[assembly.tr_p[ps[n]]])])

C8_RowSumsVanish ==
    (/\ assembly.pc = "returned"
     /\ assembly.format = "sparse"
     /\ ~assembly.divide_by_masses) =>
        \A a \in 1..assembly.nb_atoms :
            FBlockSum([b \in 1..assembly.nb_atoms |-> assembly.value[a][b]]) = FBlockZero

TripletsOn(trace, p) == { t \in 1..Len(trace.triplets) : trace.triplets[t][1] = p }

\* C10: in every operation, whenever a function of the phi family has been
\* evaluated, theta has been evaluated on all triplets, and once theta has been
\* evaluated the xi of every pair is the sum of theta over all triplets whose
\* ij side is that pair (zero for a pair without such a triplet)
C10_XiCompleteBeforePhi ==
    call.op # "__init__" =>
        /\ call.evaluated \cap PhiSet # {} => "theta" \in call.evaluated
        /\ "theta" \in call.evaluated =>
             /\ Len(call.xi_p) = Len(call.pairs)
             /\ Len(call.theta_t) = Len(call.triplets)
             /\ \A p \in 1..Len(call.pairs) :
                    call.xi_p[p] = SumOver(TripletsOn(call, p), call.theta_t)

\* a function of the phi family was evaluated where one pair is the ij side of
\* several triplets, with a xi that is not zero, and another pair is the ij
\* side of none
C10_SharedPairEvaluated ==
    /\ call.op \in {"calculate", "get_born_elastic_constants"}
    /\ call.evaluated \cap PhiSet # {}
    /\ \E p, q \in 1..Len(call.pairs) :
         /\ Cardinality(TripletsOn(call, p)) >= 2
         /\ call.xi_p[p] # 0
         /\ TripletsOn(call, q) = {}

\* phi of the pairs of the last operation, evaluated with the xi of its trace
PhiOfCall == PhiOnPairs(seed, "phi", call.atoms, call.pairs, call.xi_p)

\* the last operation was a calculate that returned for two atoms that are
\* each other's only neighbour
BondedPair ==
    /\ call.op = "calculate"
    /\ call.outcome = "returned"
    /\ NbAtoms(call.atoms) = 2
    /\ Len(call.pairs) = 2
    /\ call.triplets = <<>>

\* C11: the energy calculate stores is the sum over all directed pairs of one
\* half of phi, 'energy' and 'free_energy' hold the same value, and for two
\* atoms of one species within the cutoff with no triplet xi is zero on both
\* directed pairs and the energy is phi of the bond
C11_EnergyIsHalfThePairSum ==
    (call.op = "calculate" /\ call.outcome = "returned") =>
        /\ self_results.energy = self_results.free_energy
        /\ self_results.energy =
               FSum([p \in 1..Len(call.pairs) |-> Frac(PhiOfCall[p], 2)])
        /\ (BondedPair /\ call.atoms.numbers[1] = call.atoms.numbers[2]) =>
               /\ call.xi_p = <<0, 0>>
               /\ \A p \in 1..2 :
                      self_results.energy =
                          Frac(PairFunction(seed, "phi", call.pairs[p].r * call.pairs[p].r,
                                            call.pairs[p].r, 0,
                                            AtomType(call.atoms.numbers[call.pairs[p].i]),
                                            PairType(AtomType(call.atoms.numbers[1]),
                                                     AtomType(call.atoms.numbers[2]))), 1)

\* calculate has returned for two atoms of one species bonded to each other,
\* with an energy that is not zero
C11_SameSpeciesBond ==
    /\ BondedPair
    /\ call.atoms.numbers[1] = call.atoms.numbers[2]
    /\ self_results.energy # Frac(0, 1)

\* C11 as stated: for any two atoms within the cutoff with no triplet, the
\* energy is phi of the single bond, whichever of the two directed pairs phi
\* is evaluated on
C11_EnergyIsPhiOfTheBond ==
    BondedPair =>
        \A p \in 1..2 : self_results.energy = Frac(PhiOfCall[p], 1)

\* the forces per pair and per triplet of the last operation, evaluated from
\* its trace
PairForcesOfCall ==
    PairForces(PhiOnPairs(seed, "d1phi", call.atoms, call.pairs, call.xi_p), call.pairs)

TripletForcesOfCall ==
    TripletForces(PhiOnPairs(seed, "d2phi", call.atoms, call.pairs, call.xi_p),
                  ThetaOnTriplets(seed, "d1theta", call.atoms, call.pairs, call.triplets),
                  ThetaOnTriplets(seed, "d2theta", call.atoms, call.pairs, call.triplets),
                  ThetaOnTriplets(seed, "d3theta", call.atoms, call.pairs, call.triplets),
                  call.pairs, call.triplets)

\* the 3 x 3 sum of (bond vector (x) force) over the pairs and over the three
\* bonds of the triplets, stored row-major
BondForceTensor ==
    LET f_p == PairForcesOfCall
        f_t == TripletForcesOfCall
        D(p) == call.pairs[p].D
    IN  Array([k \in 1..9 |->
            LET a == ((k - 1) \div 3) + 1
                b == ((k - 1) % 3) + 1
            IN  SumSeq([p \in 1..Len(call.pairs) |-> D(p)[a] * f_p[p][b]])
                + SumSeq([t \in 1..Len(call.triplets) |->
                      LET ij == call.triplets[t][1]
                          ik == call.triplets[t][2]
                      IN  D(ij)[a] * f_t[t].ij[b] + D(ik)[a] * f_t[t].ik[b]
                          + VSub(D(ik), D(ij))[a] * f_t[t].jk[b]])])

\* xx, yy, zz, yz, xz, xy
Voigt == << <<1, 1>>, <<2, 2>>, <<3, 3>>, <<2, 3>>, <<1, 3>>, <<1, 2>> >>

BornReturned ==
    /\ call.op = "get_born_elastic_constants"
    /\ call.outcome = "returned"

\* C13: the tensor get_born_elastic_constants returns is unchanged by
\* exchanging its first two indices and by exchanging its last two indices
C13_BornMinorSymmetries ==
    BornReturned =>
        \A a, b, c, d \in Axes :
            /\ call.value[At4(a, b, c, d)] = call.value[At4(b, a, c, d)]
            /\ call.value[At4(a, b, c, d)] = call.value[At4(a, b, d, c)]

\* a tensor was returned for a configuration with triplets, with a shear entry
\* that is not zero and that no symmetry ties to the entry of the same indices
\* regrouped
C13_BornShearEntry ==
    /\ BornReturned
    /\ Len(call.triplets) > 0
    /\ \E a, b \in Axes :
         /\ a # b
         /\ call.value[At4(a, b, a, b)] # Frac(0, 1)
         /\ call.value[At4(a, b, a, b)] # call.value[At4(a, a, b, b)]

\* the mean of the raw contraction over the four index-pair swaps, negated and
\* divided by the volume
SwapAverage(a, b, c, d) ==
    LET C == solver.C_abab
        s == FAdd(FAdd(C[At4(a, b, c, d)], C[At4(b, a, c, d)]),
                  FAdd(C[At4(a, b, d, c)], C[At4(b, a, d, c)]))
    IN  Frac(0 - s.n, s.d * 4 * GetVolume(self_atoms))

\* C14: on the spectral path and on the conjugate-gradient path alike, the
\* tensor returned is the average of the raw contraction over the four
\* index-pair swaps, negated and divided by the volume, and is therefore
\* unchanged by swapping its first two indices and by swapping its last two
C14_ReturnedIsTheSwapAverage ==
    solver.pc = "returned" =>
        \A a, b, c, d \in Axes :
            /\ solver.value[At4(a, b, c, d)] = SwapAverage(a, b, c, d)
            /\ solver.value[At4(a, b, c, d)] = solver.value[At4(b, a, c, d)]
            /\ solver.value[At4(a, b, c, d)] = solver.value[At4(a, b, d, c)]

\* a tensor was returned on the spectral path from a raw contraction that
\* changes under the swap of its last two indices, with an entry that is not zero
C14_SpectralRawNotSymmetric ==
    /\ solver.pc = "returned"
    /\ solver.path = "spectral"
    /\ \E a, b, c, d \in Axes :
         /\ solver.C_abab[At4(a, b, c, d)] # solver.C_abab[At4(a, b, d, c)]
         /\ solver.value[At4(a, b, c, d)] # Frac(0, 1)

\* the pair types of the species present in a configuration, same-species
\* pairs included
PairTypesPresent(atoms) ==
    { PairType(AtomType(atoms.numbers[m]), AtomType(atoms.numbers[n])) :
        m \in 1..NbAtoms(atoms), n \in 1..NbAtoms(atoms) }

\* C15: get_cutoff returns the configured value when the cutoff is a scalar;
\* when it is a table it returns an entry of a pair type whose species are both
\* present in the configuration, and no entry of such a pair type is larger
C15_LargestCutoffOfSpeciesPresent ==
    call.op = "get_cutoff" =>
        IF cutoff.scalar
        THEN call.value = cutoff.value
        ELSE /\ \E p \in PairTypesPresent(call.atoms) : call.value = cutoff.table[p]
             /\ \A p \in PairTypesPresent(call.atoms) : cutoff.table[p] <= call.value

\* get_cutoff was asked with a table that holds, for a pair type whose species
\* are not both present, a radius larger than the one returned
C15_AbsentPairTypeIsLarger ==
    /\ call.op = "get_cutoff"
    /\ ~cutoff.scalar
    /\ \E p \in 1..Len(cutoff.table) :
         /\ p \notin PairTypesPresent(call.atoms)
         /\ cutoff.table[p] > call.value

\* sum over all atoms of the tensors of an array
OverAtoms(tensors) == T3Sum(tensors)

\* C16: the tensor get_non_affine_forces returns sums to zero over all atoms
\* for every force direction c and strain indices (a, b), and for every triplet
\* naF21 + naF22 + naF23 and naF51 + naF52 + naF53 are zero
C16_NonAffineForcesSumToZero ==
    /\ nonaffine.pc \in {"terms", "scattered", "returned"} =>
         \A t \in 1..Len(nonaffine.triplets) :
             /\ T3Sum(<<nonaffine.terms.naF21[t], nonaffine.terms.naF22[t],
                        nonaffine.terms.naF23[t]>>) = T3Zero
             /\ T3Sum(<<nonaffine.terms.naF51[t], nonaffine.terms.naF52[t],
                        nonaffine.terms.naF53[t]>>) = T3Zero
    /\ nonaffine.pc = "returned" =>
         /\ Len(nonaffine.value) = nonaffine.nb_atoms
         /\ OverAtoms(nonaffine.value) = T3Zero

\* a tensor was returned for a configuration with triplets in which every one
\* of the five terms has an entry that is not zero, and so has an atom
C16_AllTermsContribute ==
    /\ nonaffine.pc = "returned"
    /\ Len(nonaffine.triplets) > 0
    /\ \A name \in {"naF1", "naF21", "naF23", "naF31", "naF32", "naF4", "naF51", "naF53"} :
         \E n \in 1..Len(nonaffine.terms[name]) : nonaffine.terms[name][n] # T3Zero
    /\ \E i \in 1..Len(nonaffine.value) : nonaffine.value[i] # T3Zero

\* C17: for one topology and one set of values of the G and F functions in
\* which d11G and d22G are symmetric matrices for every triplet,
\* get_second_derivative returns the same sum for (drda_pc, drdb_pc) and for
\* (drdb_pc, drda_pc)
C17_ExchangingTheFieldsChangesNothing ==
    (probe.pc = "returned twice" /\ probe.symmetric) =>
        probe.exchanged = probe.value

\* the second derivative was taken both ways for two different fields, with
\* triplets whose d12G is not a symmetric matrix; the sum and its Term 2 are
\* not zero
C17_DifferentFieldsWithTriplets ==
    /\ probe.pc = "returned twice"
    /\ probe.symmetric
    /\ probe.drda_pc # probe.drdb_pc
    /\ Len(probe.triplets) > 0
    /\ \E t \in 1..Len(probe.triplets) : ~IsSymmetric3(probe.g[t].d12G)
    /\ probe.value # FInt(0)
    /\ ProbeT2(probe.pairs, probe.triplets, probe.g, probe.f,
               probe.drda_pc, probe.drdb_pc) # FInt(0)

====
